---- MODULE Spec2Model ----
(***************************************************************************)
(* CPE 2.3 name matching (cpe/cpeset2_3.py, class CPESet2_3).              *)
(*                                                                         *)
(* Attribute values are Python strings.  A string is modelled as the       *)
(* sequence of its characters; Python indexes from 0, TLA+ from 1, so      *)
(* the character Python calls s[i] is s[i + 1] here.                       *)
(***************************************************************************)
EXTENDS Integers, Sequences, FiniteSets

VARIABLES K, accepted, raised, op, arg, source, target, result

vars == <<K, accepted, raised, op, arg, source, target, result>>

-----------------------------------------------------------------------------
(* Bounds of the model *)

MaxSrcLen == 2

MaxTgtLen == 3

MaxK == 2

-----------------------------------------------------------------------------
(* Constants of the class *)

LOGICAL_VALUE_SUPERSET == 1

LOGICAL_VALUE_SUBSET == 2

LOGICAL_VALUE_EQUAL == 3

LOGICAL_VALUE_DISJOINT == 4

LOGICAL_VALUE_UNDEFINED == 5

(* Constants read from CPE2_3_WFN, CPE and CPE2_3 *)

VALUE_ANY_VALUE == <<"A", "N", "Y">>

VALUE_NOT_APPLICABLE == <<"N", "A">>

VALUE_NULL == <<"<unset>">>

WILDCARD_MULTI == <<"*">>

WILDCARD_ONE == <<"?">>

ESCAPE == "\\"

VERSION_2_3 == "2.3"

STYLE_WFN == "WFN"

wfn_part_keys ==
    <<"part", "vendor", "product", "version", "update", "edition",
      "language", "sw_edition", "target_sw", "target_hw", "other">>

NoValue == "none"

-----------------------------------------------------------------------------
(* Python's string methods, as the code uses them *)

Min(a, b) == IF a < b THEN a ELSE b

\* s[a:b] for 0 <= a
Slice(s, a, b) == SubSeq(s, a + 1, Min(b, Len(s)))

\* s.startswith(prefix, start, end): the slice s[start:end] begins with prefix
startswith(s, prefix, start, end) ==
    LET t == Slice(s, start, end)
    IN  Len(prefix) <= Len(t) /\ SubSeq(t, 1, Len(prefix)) = prefix

\* s.endswith(suffix, start, end): the slice s[start:end] ends with suffix
endswith(s, suffix, start, end) ==
    LET t == Slice(s, start, end)
    IN  Len(suffix) <= Len(t)
        /\ SubSeq(t, Len(t) - Len(suffix) + 1, Len(t)) = suffix

\* s.find(sub, start): the lowest index >= start where sub occurs, or -1
find(s, sub, start) ==
    LET hits == {i \in start..(Len(s) - Len(sub)) :
                    SubSeq(s, i + 1, i + Len(sub)) = sub}
    IN  IF hits = {} THEN -1
        ELSE CHOOSE i \in hits : \A j \in hits : i <= j

\* s.count(ch, lo, hi): occurrences of the character ch in s[lo:hi]
count(s, ch, lo, hi) ==
    Cardinality({i \in lo..(Min(hi, Len(s)) - 1) : s[i + 1] = ch})

lowerChar(c) ==
    CASE c = "A" -> "a"
      [] c = "B" -> "b"
      [] c = "N" -> "n"
      [] c = "Y" -> "y"
      [] OTHER -> c

\* a compare that does not fold the case of its operands
lowerNot(s) == s

\* s.lower()
lower(s) == [i \in 1..Len(s) |-> lowerChar(s[i])]

-----------------------------------------------------------------------------
(* Support functions of compare() *)

is_string(a) ==
    LET isAny == a = VALUE_ANY_VALUE
        isNa == a = VALUE_NOT_APPLICABLE
        isNull == a = VALUE_NULL
    IN  ~(isAny \/ isNa \/ isNull)

\* one of the two blocks of contains_wildcards: the first occurrence of the
\* character w is at index 0 or is not preceded by a backslash
firstUnquoted(s, w) ==
    LET idx == find(s, w, 0)
    IN  /\ idx # -1
        /\ \/ idx = 0
           \/ s[idx] # ESCAPE

\* a contains_wildcards that looks for "?" only
containsOne(s) ==
    IF firstUnquoted(s, WILDCARD_ONE) THEN TRUE
    ELSE FALSE

contains_wildcards(s) ==
    IF firstUnquoted(s, WILDCARD_MULTI) THEN TRUE
    ELSE IF firstUnquoted(s, WILDCARD_ONE) THEN TRUE
    ELSE FALSE

RECURSIVE escapeRun(_, _)
\* the while loop of isEvenWildcards: backslashes right before index idx
escapeRun(str, idx) ==
    IF idx > 0 /\ str[idx] = ESCAPE
    THEN 1 + escapeRun(str, idx - 1)
    ELSE 0

isEvenWildcards(str, idx) ==
    LET isEvenNumber == (escapeRun(str, idx) % 2) = 0
    IN  isEvenNumber

-----------------------------------------------------------------------------
(* compareStrings *)

RECURSIVE leadingOnes(_, _, _)
\* "Source starts with one or more ?": gives <<start, begins>>
leadingOnes(src, start, begins) ==
    IF start < Len(src) /\ startswith(src, WILDCARD_ONE, start, start)
    THEN leadingOnes(src, start + 1, begins + 1)
    ELSE <<start, begins>>

\* "Reading of initial wildcard in source": gives <<start, begins>>
readInitial(src) ==
    IF startswith(src, WILDCARD_MULTI, 0, Len(src))
    THEN <<1, -1>>
    ELSE leadingOnes(src, 0, 0)

RECURSIVE trailingOnes(_, _, _)
\* "Source ends in ?": gives <<end, ends>>
trailingOnes(src, end, ends) ==
    IF /\ end > 0
       /\ endswith(src, WILDCARD_ONE, end - 1, end - 1)
       /\ isEvenWildcards(src, end - 1)
    THEN trailingOnes(src, end - 1, ends + 1)
    ELSE <<end, ends>>

\* "Reading of final wildcard in source": gives <<end, ends>>
readFinal(src) ==
    IF /\ endswith(src, WILDCARD_MULTI, 0, Len(src))
       /\ isEvenWildcards(src, Len(src) - 1)
    THEN <<Len(src) - 1, -1>>
    ELSE trailingOnes(src, Len(src), 0)

RECURSIVE matchLoop(_, _, _, _, _, _)
\* the loop "while (leftover > 0)" over the occurrences of src in tgt
matchLoop(src, tgt, begins, ends, index, leftover) ==
    IF leftover > 0
    THEN LET idx == find(tgt, src, index + 1)
             before == count(tgt, ESCAPE, 0, idx)
             after == count(tgt, ESCAPE, idx + 1, Len(tgt))
             left == Len(tgt) - idx - after - Len(src)
         IN  IF idx = -1 THEN LOGICAL_VALUE_DISJOINT
             ELSE IF idx > 0 /\ begins # -1 /\ begins < idx - before
                  THEN LOGICAL_VALUE_DISJOINT
             ELSE IF left > 0 /\ (ends # -1 /\ left > ends)
                  THEN matchLoop(src, tgt, begins, ends, idx, left)
             ELSE LOGICAL_VALUE_SUPERSET
    ELSE LOGICAL_VALUE_DISJOINT

compareStrings(src, tgt) ==
    LET ini == readInitial(src)
        fin == readFinal(src)
        inner == Slice(src, ini[1], fin[1])
    IN  matchLoop(inner, tgt, ini[2], fin[2], -1, Len(tgt))

-----------------------------------------------------------------------------
(* compare *)

compare(src0, tgt0) ==
    LET src == IF is_string(src0) THEN lower(src0) ELSE src0
        tgt == IF is_string(tgt0) THEN lower(tgt0) ELSE tgt0
        isSourceNA == src = VALUE_NOT_APPLICABLE
        isTargetNA == tgt = VALUE_NOT_APPLICABLE
    IN  IF is_string(tgt) /\ contains_wildcards(tgt)
        THEN LOGICAL_VALUE_UNDEFINED
        ELSE IF src = tgt THEN LOGICAL_VALUE_EQUAL
        ELSE IF src = VALUE_ANY_VALUE \/ src = VALUE_NULL
             THEN LOGICAL_VALUE_SUPERSET
        ELSE IF tgt = VALUE_ANY_VALUE \/ tgt = VALUE_NULL
             THEN LOGICAL_VALUE_SUBSET
        ELSE IF isSourceNA \/ isTargetNA THEN LOGICAL_VALUE_DISJOINT
        ELSE compareStrings(src, tgt)

-----------------------------------------------------------------------------
(* Comparison of two WFNs.  A WFN is the function att |-> get_value(att).  *)

Keys == {wfn_part_keys[i] : i \in 1..Len(wfn_part_keys)}

compare_wfns(src, tgt) == [att \in Keys |-> compare(src[att], tgt[att])]

RECURSIVE disjointLoop(_, _)
disjointLoop(result_dict, i) ==
    IF i > Len(wfn_part_keys) THEN FALSE
    ELSE LET res == result_dict[wfn_part_keys[i]]
             isDisjoint == res = LOGICAL_VALUE_DISJOINT
         IN  IF isDisjoint THEN TRUE
             ELSE disjointLoop(result_dict, i + 1)

cpe_disjoint(src, tgt) == disjointLoop(compare_wfns(src, tgt), 1)

RECURSIVE equalAny(_, _)
\* a cpe_equal that is satisfied by any EQUAL attribute
equalAny(result_dict, i) ==
    IF i > Len(wfn_part_keys) THEN FALSE
    ELSE LET res == result_dict[wfn_part_keys[i]]
             isEqual == res = LOGICAL_VALUE_EQUAL
         IN  IF isEqual THEN TRUE
             ELSE equalAny(result_dict, i + 1)

RECURSIVE equalLoop(_, _)
equalLoop(result_dict, i) ==
    IF i > Len(wfn_part_keys) THEN TRUE
    ELSE LET res == result_dict[wfn_part_keys[i]]
             isEqual == res = LOGICAL_VALUE_EQUAL
         IN  IF ~isEqual THEN FALSE
             ELSE equalLoop(result_dict, i + 1)

cpe_equal(src, tgt) == equalLoop(compare_wfns(src, tgt), 1)

RECURSIVE subsetLoop(_, _)
subsetLoop(result_dict, i) ==
    IF i > Len(wfn_part_keys) THEN TRUE
    ELSE LET res == result_dict[wfn_part_keys[i]]
             isSubset == res = LOGICAL_VALUE_SUBSET
             isEqual == res = LOGICAL_VALUE_EQUAL
         IN  IF (~isSubset) /\ (~isEqual) THEN FALSE
             ELSE subsetLoop(result_dict, i + 1)

cpe_subset(src, tgt) == subsetLoop(compare_wfns(src, tgt), 1)

RECURSIVE supersetStrict(_, _)
\* a cpe_superset that does not accept EQUAL
supersetStrict(result_dict, i) ==
    IF i > Len(wfn_part_keys) THEN TRUE
    ELSE LET res == result_dict[wfn_part_keys[i]]
             isSuperset == res = LOGICAL_VALUE_SUPERSET
         IN  IF ~isSuperset THEN FALSE
             ELSE supersetStrict(result_dict, i + 1)

RECURSIVE supersetLoop(_, _)
supersetLoop(result_dict, i) ==
    IF i > Len(wfn_part_keys) THEN TRUE
    ELSE LET res == result_dict[wfn_part_keys[i]]
             isSuperset == res = LOGICAL_VALUE_SUPERSET
             isEqual == res = LOGICAL_VALUE_EQUAL
         IN  IF (~isSuperset) /\ (~isEqual) THEN FALSE
             ELSE supersetLoop(result_dict, i + 1)

cpe_superset(src, tgt) == supersetLoop(compare_wfns(src, tgt), 1)

-----------------------------------------------------------------------------
(* The set of CPE names: self.K.  An element has the fields the class      *)
(* reads: version, style, str and, through get_value, its attributes (wfn) *)

len(self) == Len(self)

\* an append that checks the style before the version
appendRaisesStyleFirst(cpe) ==
    IF cpe.style # STYLE_WFN THEN "TypeError"
    ELSE IF cpe.version # VERSION_2_3 THEN "ValueError"
    ELSE NoValue

\* the two checks at the head of append: the exception raised, if any
appendRaises(cpe) ==
    IF cpe.version # VERSION_2_3 THEN "ValueError"
    ELSE IF cpe.style # STYLE_WFN THEN "TypeError"
    ELSE NoValue

\* an append that does not look for the element in self.K
appendAlways(self, cpe) == Append(self, cpe)

\* the rest of append: self.K after an element that passed the checks
appendList(self, cpe) ==
    IF \E i \in 1..Len(self) : cpe.str = self[i].str
    THEN self
    ELSE Append(self, cpe)

\* a name_match that returns after the first element it looks at
matchFirst(self, wfn, i) ==
    IF i > Len(self) THEN FALSE
    ELSE cpe_superset(wfn, self[i].wfn)

RECURSIVE matchFrom(_, _, _)
\* the loop of name_match from the i-th element on
matchFrom(self, wfn, i) ==
    IF i > Len(self) THEN FALSE
    ELSE IF cpe_superset(wfn, self[i].wfn) THEN TRUE
    ELSE matchFrom(self, wfn, i + 1)

name_match(self, wfn) == matchFrom(self, wfn, 1)

-----------------------------------------------------------------------------
(* Inputs of the value-level functions *)

Chars == {"a", "A", "b", "\\", "*", "?"}

Strings(n) == UNION {[1..k -> Chars] : k \in 0..n}

Markers == {VALUE_ANY_VALUE, VALUE_NOT_APPLICABLE, VALUE_NULL}

SourceValues == Strings(MaxSrcLen) \cup Markers

TargetValues == Strings(MaxTgtLen) \cup Markers

-----------------------------------------------------------------------------
(* Calls of contains_wildcards on every string *)

InitWild ==
    /\ K = <<>>
    /\ accepted = {}
    /\ raised = NoValue
    /\ op = "none"
    /\ arg \in Strings(MaxTgtLen)
    /\ source = NoValue
    /\ target = NoValue
    /\ result = NoValue

ContainsWildcards ==
    /\ op = "none"
    /\ op' = "contains_wildcards"
    /\ result' = contains_wildcards(arg)
    /\ UNCHANGED <<K, accepted, raised, arg, source, target>>

NextWild == ContainsWildcards

SpecWild == InitWild /\ [][NextWild]_vars

-----------------------------------------------------------------------------
(* Calls of compare and compareStrings on every pair of values *)

InitCompare ==
    /\ K = <<>>
    /\ accepted = {}
    /\ raised = NoValue
    /\ op = "none"
    /\ arg = NoValue
    /\ source \in SourceValues
    /\ target \in TargetValues
    /\ result = NoValue

Compare ==
    /\ op' = "compare"
    /\ result' = compare(source, target)
    /\ UNCHANGED <<K, accepted, raised, arg, source, target>>

CompareStrings ==
    /\ is_string(source)
    /\ is_string(target)
    /\ op' = "compareStrings"
    /\ result' = compareStrings(source, target)
    /\ UNCHANGED <<K, accepted, raised, arg, source, target>>

NextCompare == Compare \/ CompareStrings

SpecCompare == InitCompare /\ [][NextCompare]_vars

-----------------------------------------------------------------------------
(* Calls of compare_wfns and of the four set relations on pairs of WFNs *)

WfnValues ==
    {VALUE_ANY_VALUE, VALUE_NOT_APPLICABLE, VALUE_NULL,
     <<"a">>, <<"A">>, <<"a", "b">>, <<"a", "*">>, <<"\\", "*">>}

\* a WFN with the value p for part and the value r for every other attribute
PairWfn(p, r) == [att \in Keys |-> IF att = "part" THEN p ELSE r]

PairWfns == {PairWfn(p, r) : p \in WfnValues, r \in WfnValues}

InitWfn ==
    /\ K = <<>>
    /\ accepted = {}
    /\ raised = NoValue
    /\ op = "none"
    /\ arg = NoValue
    /\ source \in PairWfns
    /\ target \in PairWfns
    /\ result = NoValue

CompareWfns ==
    /\ op' = "compare_wfns"
    /\ result' = compare_wfns(source, target)
    /\ UNCHANGED <<K, accepted, raised, arg, source, target>>

CpeDisjoint ==
    /\ op' = "cpe_disjoint"
    /\ result' = cpe_disjoint(source, target)
    /\ UNCHANGED <<K, accepted, raised, arg, source, target>>

CpeEqual ==
    /\ op' = "cpe_equal"
    /\ result' = cpe_equal(source, target)
    /\ UNCHANGED <<K, accepted, raised, arg, source, target>>

CpeSubset ==
    /\ op' = "cpe_subset"
    /\ result' = cpe_subset(source, target)
    /\ UNCHANGED <<K, accepted, raised, arg, source, target>>

CpeSuperset ==
    /\ op' = "cpe_superset"
    /\ result' = cpe_superset(source, target)
    /\ UNCHANGED <<K, accepted, raised, arg, source, target>>

NextWfn == CompareWfns \/ CpeDisjoint \/ CpeEqual \/ CpeSubset \/ CpeSuperset

SpecWfn == InitWfn /\ [][NextWfn]_vars

-----------------------------------------------------------------------------
(* A CPESet2_3 object: __init__, then append and name_match in any order *)

hp == <<"h", "p">>

insight_diagnostics ==
    <<"i", "n", "s", "i", "g", "h", "t", "_",
      "d", "i", "a", "g", "n", "o", "s", "t", "i", "c", "s">>

\* version="8.*": the '*' is unquoted
version8Star == <<"8", ".", "*">>

\* version="8\.\*": the '.' and the '*' are quoted
version8Quoted == <<"8", "\\", ".", "\\", "*">>

\* version="8*"
version8Any == <<"8", "*">>

\* sw_edition="?"
oneChar == <<"?">>

Wfn(p, ver, sw) ==
    [att \in Keys |->
        CASE att = "part" -> p
          [] att = "vendor" -> hp
          [] att = "product" -> insight_diagnostics
          [] att = "version" -> ver
          [] att = "sw_edition" -> sw
          [] OTHER -> VALUE_ANY_VALUE]

MemberWfns ==
    {Wfn(p, ver, sw) : p \in {<<"a">>, <<"o">>},
                       ver \in {version8Star, version8Quoted},
                       sw \in {VALUE_ANY_VALUE, oneChar}}

CandidateWfns ==
    {Wfn(p, ver, sw) : p \in {<<"a">>, <<"h">>, VALUE_ANY_VALUE},
                       ver \in {VALUE_ANY_VALUE, version8Quoted, version8Any},
                       sw \in {VALUE_ANY_VALUE, oneChar}}

\* a CPE name; its string is fixed by its style, its textual form and the
\* values it is parsed to
CPEName(version, style, form, w) ==
    [version |-> version, style |-> style, str |-> <<style, form, w>>,
     wfn |-> w]

Elements ==
    {CPEName(VERSION_2_3, STYLE_WFN, "plain", w) : w \in MemberWfns}
    \cup {CPEName(VERSION_2_3, STYLE_WFN, "spaced",
                  Wfn(<<"a">>, version8Star, VALUE_ANY_VALUE))}
    \cup {CPEName(v, st, "plain", Wfn(<<"a">>, version8Quoted, VALUE_ANY_VALUE)) :
            v \in {"2.2", VERSION_2_3}, st \in {"URI", STYLE_WFN}}

Init ==
    /\ K = <<>>
    /\ accepted = {}
    /\ raised = NoValue
    /\ op = "none"
    /\ arg = NoValue
    /\ source = NoValue
    /\ target = NoValue
    /\ result = NoValue

append(cpe) ==
    /\ appendRaises(cpe) = NoValue => Len(appendList(K, cpe)) <= MaxK
    /\ op' = "append"
    /\ arg' = cpe
    /\ raised' = appendRaises(cpe)
    /\ K' = IF appendRaises(cpe) # NoValue THEN K ELSE appendList(K, cpe)
    /\ accepted' = IF appendRaises(cpe) # NoValue THEN accepted
                   ELSE accepted \cup {cpe.str}
    /\ result' = NoValue
    /\ UNCHANGED <<source, target>>

NameMatch(wfn) ==
    /\ op' = "name_match"
    /\ arg' = wfn
    /\ raised' = NoValue
    /\ result' = name_match(K, wfn)
    /\ UNCHANGED <<K, accepted, source, target>>

Next ==
    \/ \E cpe \in Elements : append(cpe)
    \/ \E wfn \in CandidateWfns : NameMatch(wfn)

Spec == Init /\ [][Next]_vars

-----------------------------------------------------------------------------
(* Vocabulary of the properties *)

SupersetOrEqual == {LOGICAL_VALUE_SUPERSET, LOGICAL_VALUE_EQUAL}

\* the number of consecutive backslashes right before position i of s
EscapesBefore(s, i) ==
    Cardinality({k \in 1..(i - 1) : \A j \in (i - k)..(i - 1) : s[j] = "\\"})

\* s holds a '*' or '?' that an even number of backslashes precedes
HasUnquotedWildcard(s) ==
    \E i \in 1..Len(s) :
        s[i] \in {"*", "?"} /\ EscapesBefore(s, i) % 2 = 0

\* the first '*' of s, or its first '?', opens s or follows a character
\* that is not a backslash
FirstWildcardUnquoted(s) ==
    \E i \in 1..Len(s) :
        /\ s[i] \in {"*", "?"}
        /\ \A j \in 1..(i - 1) : s[j] # s[i]
        /\ i = 1 \/ s[i - 1] # "\\"

\* a and b are equal but for the case of their letters
SameUpToCase(a, b) ==
    /\ Len(a) = Len(b)
    /\ \A i \in 1..Len(a) :
          \/ a[i] = b[i]
          \/ {a[i], b[i]} \in {{"a", "A"}, {"b", "B"}}

\* every attribute relation of compare_wfns(x, y) is SUPERSET or EQUAL
AllSupersetOrEqual(x, y) ==
    \A att \in Keys : compare_wfns(x, y)[att] \in SupersetOrEqual

\* the i-th member of K has the candidate's value for every attribute but
\* version, none of these values is a literal with an unquoted wildcard, and
\* the candidate's version is ANY
GeneralizesVersion(i) ==
    /\ arg["version"] = VALUE_ANY_VALUE
    /\ \A att \in Keys \ {"version"} :
          /\ arg[att] = K[i].wfn[att]
          /\ is_string(arg[att]) => ~HasUnquotedWildcard(arg[att])

\* as GeneralizesVersion, whatever the shared values are
SameButVersion(i) ==
    /\ arg["version"] = VALUE_ANY_VALUE
    /\ \A att \in Keys \ {"version"} : arg[att] = K[i].wfn[att]

-----------------------------------------------------------------------------
(* C1: name_match(X) is True iff some member M of K has every attribute    *)
(* relation compare(X.get_value(att), M.get_value(att)) SUPERSET or EQUAL; *)
(* on an empty K it is False.                                              *)
C1_NameMatchIsSomeSuperset ==
    op = "name_match" =>
        result = (\E i \in 1..Len(K) :
                     \A att \in Keys :
                        compare(arg[att], K[i].wfn[att]) \in SupersetOrEqual)

C1_Witness ==
    /\ op = "name_match"
    /\ Len(K) = 2
    /\ result = TRUE
    /\ ~AllSupersetOrEqual(arg, K[1].wfn)

(* C2, as stated: with a member of version "8.*" in K and a candidate that *)
(* has the member's other values and version ANY, name_match is True.      *)
C2_AnyMatchesUnquotedStar ==
    op = "name_match" =>
        \A i \in 1..Len(K) :
            (SameButVersion(i) /\ K[i].wfn["version"] = version8Star
             /\ K[i].wfn["sw_edition"] = VALUE_ANY_VALUE)
                => result = TRUE

(* C2, amended: the candidate's ANY generalizes the stored version when    *)
(* its '*' is quoted ("8\.\*"): name_match is True.  With the stored       *)
(* version "8.*" the member is no match, and name_match is True only if    *)
(* another member of K is a match.                                         *)
C2_AnyMatchesQuotedStar ==
    op = "name_match" =>
        \A i \in 1..Len(K) :
            GeneralizesVersion(i) =>
                /\ K[i].wfn["version"] = version8Quoted => result = TRUE
                /\ K[i].wfn["version"] = version8Star =>
                      result = (\E j \in 1..Len(K) :
                                   j # i /\ AllSupersetOrEqual(arg, K[j].wfn))

C2_Witness ==
    /\ op = "name_match"
    /\ Len(K) = 2
    /\ GeneralizesVersion(1) /\ K[1].wfn["version"] = version8Star
    /\ GeneralizesVersion(2) /\ K[2].wfn["version"] = version8Quoted
    /\ result = TRUE

(* C3: K never holds two elements of the same str; an append of an element *)
(* whose str a member has leaves K as it is, an append of an accepted      *)
(* element of a new str puts it at the end, and len() is the number of     *)
(* distinct strs accepted so far.                                          *)
C3_AppendDedupes ==
    /\ [](/\ \A i, j \in 1..Len(K) : K[i].str = K[j].str => i = j
          /\ len(K) = Cardinality(accepted))
    /\ [][(op' = "append" /\ raised' = NoValue) =>
            IF \E i \in 1..Len(K) : K[i].str = arg'.str
            THEN K' = K
            ELSE K' = K \o <<arg'>>]_vars

C3_Witness ==
    /\ op = "append"
    /\ raised = NoValue
    /\ Len(K) = 2
    /\ arg.str = K[1].str
    /\ Cardinality(accepted) = 2

(* C4: append raises ValueError for an element whose version is not 2.3    *)
(* (also when its style is wrong too), TypeError for an element of version *)
(* 2.3 whose style is not WFN, and leaves K as it was in both cases.       *)
C4_AppendErrors ==
    [][op' = "append" =>
         /\ arg'.version # VERSION_2_3 =>
               (raised' = "ValueError" /\ K' = K)
         /\ (arg'.version = VERSION_2_3 /\ arg'.style # STYLE_WFN) =>
               (raised' = "TypeError" /\ K' = K)
         /\ (arg'.version = VERSION_2_3 /\ arg'.style = STYLE_WFN) =>
               raised' = NoValue]_vars

C4_Witness ==
    /\ op = "append"
    /\ raised = "ValueError"
    /\ arg.style # STYLE_WFN
    /\ Len(K) > 0

C7_SupersetThenSubset ==
    /\ (op = "cpe_superset" /\ AllSupersetOrEqual(source, target))
          => result = TRUE
    /\ (op = "cpe_subset" /\ AllSupersetOrEqual(target, source))
          => result = TRUE

(* C7, amended: when every relation of compare_wfns(x, y) is SUPERSET or   *)
(* EQUAL, cpe_superset(x, y) is True, and cpe_subset(y, x) is True exactly *)
(* when every attribute is EQUAL or has x's value ANY or unset and y's     *)
(* value neither ANY nor unset.                                            *)
C7_SupersetThenSubsetIfAny ==
    /\ (op = "cpe_superset" /\ AllSupersetOrEqual(source, target))
          => result = TRUE
    /\ (op = "cpe_subset" /\ AllSupersetOrEqual(target, source))
          => result =
               (\A att \in Keys :
                   \/ compare(target[att], source[att]) = LOGICAL_VALUE_EQUAL
                   \/ /\ target[att] \in {VALUE_ANY_VALUE, VALUE_NULL}
                      /\ source[att] \notin {VALUE_ANY_VALUE, VALUE_NULL})

C7_Witness ==
    /\ op = "cpe_subset"
    /\ AllSupersetOrEqual(target, source)
    /\ target["part"] = VALUE_ANY_VALUE
    /\ source["part"] = <<"a">>
    /\ result = TRUE

(* C8: compare(source, target) is UNDEFINED whenever target is a literal   *)
(* with an unquoted '*' or '?' at any position, whatever source is: ANY,   *)
(* NA or a literal, the target itself included.                            *)
C8_UnquotedTargetUndefined ==
    (op = "compare" /\ source # VALUE_NULL
     /\ is_string(target) /\ HasUnquotedWildcard(target))
        => result = LOGICAL_VALUE_UNDEFINED

(* C9: contains_wildcards(s) is True iff s holds an unquoted '*' or '?'    *)
(* anywhere.                                                               *)
C9_ContainsWildcardsAnywhere ==
    op = "contains_wildcards" => result = HasUnquotedWildcard(arg)

\* the number of '?' that open s, and that close s
LeadingRun(s) ==
    Cardinality({k \in 1..Len(s) : \A j \in 1..k : s[j] = "?"})

TrailingRun(s) ==
    Cardinality({k \in 1..Len(s) :
                    \A j \in (Len(s) - k + 1)..Len(s) : s[j] = "?"})

\* s holds no wildcard character and no backslash
Plain(s) == \A i \in 1..Len(s) : s[i] \notin {"*", "?", "\\"}

(* C10: compareStrings strips the n leading and the m trailing unquoted    *)
(* '?' of source, and is SUPERSET exactly when what remains occurs in      *)
(* target with at most n characters before it and at most m after it.      *)
C10_QuestionMarksBoundTheSlack ==
    LET n == LeadingRun(source)
        m == TrailingRun(source)
        inner == SubSeq(source, n + 1, Len(source) - m)
    IN  (op = "compareStrings" /\ n + m >= 1 /\ n + m < Len(source)
         /\ Plain(inner) /\ Plain(target))
            => result =
                 IF \E i \in 0..(Len(target) - Len(inner)) :
                       /\ SubSeq(target, i + 1, i + Len(inner)) = inner
                       /\ i <= n
                       /\ Len(target) - i - Len(inner) <= m
                 THEN LOGICAL_VALUE_SUPERSET
                 ELSE LOGICAL_VALUE_DISJOINT

\* every backslash of s quotes a character: s does not end in an odd run
WellQuoted(s) == EscapesBefore(s, Len(s) + 1) % 2 = 0

(* C11: for a source without '*' and '?' and a target without unquoted     *)
(* wildcards, compareStrings is SUPERSET only if target is identical to    *)
(* source and DISJOINT for every other target, quoted characters in or     *)
(* after the matched text included.  Stated for a source that is not empty *)
(* and for strings whose backslashes each quote a character.               *)
C11_NoWildcardMeansIdentical ==
    (op = "compareStrings"
     /\ source # <<>>
     /\ \A i \in 1..Len(source) : source[i] \notin {"*", "?"}
     /\ WellQuoted(source) /\ WellQuoted(target)
     /\ ~HasUnquotedWildcard(target))
        => /\ result = LOGICAL_VALUE_SUPERSET => target = source
           /\ target # source => result = LOGICAL_VALUE_DISJOINT

====
